---- MODULE Spec2Model ----
(***************************************************************************)
(* A model of karabo's InterferometerSimulation.run_simulation             *)
(* (src/karabo/simulation/interferometer.py): the split of the sky over    *)
(* the workers of a dask client, the submission and gathering of the       *)
(* simulation tasks, and the day loop of a long observation.               *)
(*                                                                         *)
(* A source row is named by its 1-based position in the caller's source    *)
(* array; sky[r] is its reference frequency (column 6).  A chunk is a      *)
(* sequence of rows.  Python's 0-based indices are kept wherever the code  *)
(* computes with them (split_idxs, split_idxs_per_group).                  *)
(***************************************************************************)
EXTENDS Integers, Sequences, FiniteSets, TLC

\* ------------------------------------------------------------------ bounds
MaxRows == 3
MaxWorkers == 3
MaxDays == 2
MaxVram == 2

\* The reference frequencies a row may have.
Freqs == {100, 200, 300, 400}

NoValue == "None"

\* None, where a path, a result or an exception may stand.
NoPath == <<>>
NoResult == [kind |-> "None", paths |-> <<>>]
NoError == [type |-> "None", msg |-> "", day |-> 0, item |-> 0]
NoObservation ==
    [long |-> FALSE, number_of_days |-> 0,
     start_date_and_time |-> [date |-> 0, time |-> NoValue]]

\* ------------------------------------------------------- sequence helpers
Range(s) == {s[k] : k \in DOMAIN s}

SeqsUpTo(S, lo, hi) == UNION {[1..n -> S] : n \in lo..hi}

RECURSIVE Flatten(_)
Flatten(ss) == IF ss = <<>> THEN <<>> ELSE Head(ss) \o Flatten(Tail(ss))

CeilDiv(a, b) == (a + b - 1) \div b

\* ------------------------------------------------------------ the sorting
\* array_sky[:, 6].argsort(): numpy's default sort kind is not stable, so the
\* order of rows of equal frequency is whatever the build produces.  Every
\* ascending order of the rows is an outcome; for an array too long to
\* enumerate them, the stable order and the order with every tie reversed.
RECURSIVE AscendingOrders(_, _)
AscendingOrders(freq, rows) ==
    IF rows = {} THEN {<<>>}
    ELSE LET least == {r \in rows : \A q \in rows : freq[r] <= freq[q]}
         IN  UNION {{<<r>> \o rest : rest \in AscendingOrders(freq, rows \ {r})}
                    : r \in least}

OrderBy(freq, tie) ==
    LET n == Len(freq)
        before(a, b) == \/ freq[a] < freq[b]
                        \/ freq[a] = freq[b] /\ tie[a] < tie[b]
        pos == [r \in 1..n |-> Cardinality({q \in 1..n : before(q, r)}) + 1]
    IN  [k \in 1..n |-> CHOOSE r \in 1..n : pos[r] = k]

argsort(freq) ==
    IF Len(freq) <= MaxRows
    THEN AscendingOrders(freq, 1..Len(freq))
    ELSE {OrderBy(freq, [r \in 1..Len(freq) |-> r]),
          OrderBy(freq, [r \in 1..Len(freq) |-> Len(freq) + 1 - r])}

\* ------------------------------------------------------ the frequency split
\* frequencies["freq"].rank(method="dense"): the number of distinct values
\* not above the row's own, for each position of the sorted array.
DenseRank(freq, arr) ==
    [k \in 1..Len(arr) |->
        Cardinality({freq[arr[j]] : j \in {x \in 1..Len(arr) : freq[arr[x]] <= freq[arr[k]]}})]

\* A spacing that rounds down (never below one).
SpacingFloor(rank, n) == IF rank[Len(rank)] \div n = 0 THEN 1 ELSE rank[Len(rank)] \div n

\* spacing = np.ceil(frequencies["rank"].iloc[-1] / N).astype(int)
Spacing(rank, n) == CeilDiv(rank[Len(rank)], n)

\* Split ranks that start at the spacing: range(1, N + 1).
SplitRanksFromOne(rank, n) == [k \in 1..n |-> Spacing(rank, n) * k]

\* split_ranks = [0 + spacing * i for i in range(N)]
SplitRanks(rank, n) == [k \in 1..n |-> Spacing(rank, n) * (k - 1)]

\* frequencies[frequencies["rank"] == r].index: the 0-based positions of rank r.
IndexOfRank(rank, r) == {k - 1 : k \in {x \in 1..Len(rank) : rank[x] = r}}

\* .index[0] raises IndexError when no row has the rank.
SplitFails(rank, n) ==
    \E k \in 1..(n - 1) : IndexOfRank(rank, SplitRanks(rank, n)[k + 1]) = {}

Least(S) == CHOOSE x \in S : \A y \in S : x <= y

SplitIdxs(rank, n) ==
    [k \in 1..(n - 1) |-> Least(IndexOfRank(rank, SplitRanks(rank, n)[k + 1]))]

\* A split whose slices take their end index in: ary[i0:i1 + 1].
NpSplitInclusive(arr, idxs) ==
    [c \in 1..(Len(idxs) + 1) |->
        IF c = Len(idxs) + 1
        THEN (IF idxs = <<>> THEN arr
              ELSE IF idxs[c - 1] >= Len(arr) THEN <<>>
              ELSE SubSeq(arr, idxs[c - 1] + 1, Len(arr)))
        ELSE SubSeq(arr, (IF c = 1 THEN 0 ELSE idxs[c - 1]) + 1,
                    IF idxs[c] + 1 > Len(arr) THEN Len(arr) ELSE idxs[c] + 1)]

\* np.split(ary, indices): ary[:i0], ary[i0:i1], ..., ary[ilast:]
Slice(arr, lo, hi) ==
    IF hi <= lo THEN <<>> ELSE SubSeq(arr, lo + 1, IF hi > Len(arr) THEN Len(arr) ELSE hi)

NpSplit(arr, idxs) ==
    [c \in 1..(Len(idxs) + 1) |->
        Slice(arr, IF c = 1 THEN 0 ELSE idxs[c - 1],
                   IF c = Len(idxs) + 1 THEN Len(arr) ELSE idxs[c])]

\* A ratio that is the quotient of the first chunk's size by the budget.
RatioVramNumeric(chunks, budget) ==
    IF budget = 0 THEN 0 ELSE CeilDiv(Len(chunks[1]), budget)

\* split_array_sky[0].nbytes / 1024**2 > max_vram_usage_gpu: a bool, read as
\* a number by the comparison and the ceil that follow.  A row occupies one
\* unit of memory.
RatioVramUsage(chunks, budget) == IF Len(chunks[1]) > budget THEN 1 ELSE 0

\* The while True loop as a function of its inputs: the number of chunks it
\* leaves in split_array_sky when it breaks, 0 when a pass raises IndexError.
\* check: is_cuda_available() and self.max_vram_usage_gpu.
RECURSIVE WhileTrue(_, _, _, _, _)
WhileTrue(arr, rank, n, check, budget) ==
    IF SplitFails(rank, n) THEN 0
    ELSE LET chunks == NpSplit(arr, SplitIdxs(rank, n))
             ratio_vram_usage == RatioVramUsage(chunks, budget)
         IN  IF check /\ ratio_vram_usage > 1
             THEN WhileTrue(arr, rank, n + ratio_vram_usage, check, budget)
             ELSE Len(chunks)

\* ------------------------------------------------------ the explicit groups
\* np.take(array_sky, split_idxs_per_group, axis=0): the index lists become
\* one integer array, which a ragged list of lists cannot (ValueError); an
\* index outside [-n, n) raises IndexError; a negative index counts from the
\* end.
Ragged(groups) == \E a, b \in DOMAIN groups : Len(groups[a]) # Len(groups[b])

OutOfBounds(groups, n) ==
    \E a \in DOMAIN groups : \E b \in DOMAIN groups[a] :
        groups[a][b] >= n \/ groups[a][b] < -n

TakeFails(arr, groups) == Ragged(groups) \/ OutOfBounds(groups, Len(arr))

NpTake(arr, groups) ==
    [a \in DOMAIN groups |->
        [b \in DOMAIN groups[a] |->
            IF groups[a][b] >= 0 THEN arr[groups[a][b] + 1]
            ELSE arr[Len(arr) + groups[a][b] + 1]]]

\* ------------------------------------------------------------------ paths
\* FileHandle().path of the long observation, and os.path.join under it.
vis_dir_path == "vis_dir"

\* A day counter that starts at zero: enumerate(...) without its start.
DayPathFromZero(day, ext) == <<vis_dir_path, "beam_vis_", day - 1, ext>>

\* os.path.join(vis_dir_path, beam_vis_prefix + str(i) + ext)
DayPath(day, ext) == <<vis_dir_path, "beam_vis_", day, ext>>

\* Visibility().file.path: a fresh file handle for every Visibility object,
\* here the one made for item k of the run of the given day (0: a single run).
MsFilePath(day, k) == <<"tmp", "visibility_", 100 * day + k, ".ms">>

\* ----------------------------------------------------- telescope directory
\* An entry of the directory tree: its name (stem and extension), file or
\* directory, and the directory below telescope.path it lies in ("": the top
\* level, what os.listdir and the first step of os.walk see).
Entry(stem, ext, kind, day) ==
    [stem |-> stem, ext |-> ext, kind |-> kind, day |-> day, parent |-> ""]

Inside(parent, e) == [e EXCEPT !.parent = parent]

PositionTxt == Entry("position", ".txt", "file", 0)
LayoutTxt == Entry("layout", ".txt", "file", 0)
Station000 == Entry("station000", "", "dir", 0)

\* A beam file another run left behind.
StaleBin == Entry("element_pattern_fit_x", ".bin", "file", 0)

\* What a station directory may hold, and a top-level file with bin in its
\* name but not at its end.
StationLayout == Inside("station000", Entry("layout", ".txt", "file", 0))
StationBin == Inside("station000", Entry("element_pattern_fit_x", ".bin", "file", 0))
BinTxt == Entry("beam.bin", ".txt", "file", 0)

\* What fit_elements leaves in the telescope directory for one polarisation;
\* day records the campaign day that wrote the file.
BeamBin(pol, day) == Entry("element_pattern_fit_" \o pol, ".bin", "file", day)

\* Writing a file replaces the entry of the same name.
WriteEntry(dir, e) ==
    {x \in dir : x.stem # e.stem \/ x.ext # e.ext \/ x.parent # e.parent} \cup {e}

\* A purge that removes nothing.
RemoveNothing(dir) == dir

\* A purge that walks the whole tree.
RemoveBeamFilesDeep(dir) == {x \in dir : x.ext # ".bin"}

\* for item in os.listdir(path): if item.endswith(".bin"): os.remove(...)
RemoveBeamFiles(dir) == {x \in dir : x.parent # "" \/ x.ext # ".bin"}

\* A check that takes a layout.txt of any directory of the walk.
MissingLayoutAnywhere(dir) ==
    ~ \E x \in dir : x.kind = "file" /\ x.stem = "layout" /\ x.ext = ".txt"

\* Telescope.read_OSKAR_tm_file: the two files it insists on, among the
\* file names of the top level (files[0]).
MissingPosition(dir) ==
    ~ \E x \in dir : x.parent = "" /\ x.kind = "file" /\ x.stem = "position" /\ x.ext = ".txt"
MissingLayout(dir) ==
    ~ \E x \in dir : x.parent = "" /\ x.kind = "file" /\ x.stem = "layout" /\ x.ext = ".txt"

\* ----------------------------------------------------------------- errors
\* An exception: its type and message, and the day index and the item number
\* it names (0: none; no raise of the code names either).
Exception(type, msg) == [type |-> type, msg |-> msg, day |-> 0, item |-> 0]

\* ------------------------------------------------------------------ state
VARIABLES
    self,             \* the InterferometerSimulation's fields
    cluster,          \* what the environment answers: workers, cuda, gpu_memory
    sky,              \* the caller's sky: sources[:, 6], by row
    observation,      \* the caller's observation
    teldir,           \* the entries of the directory telescope.path
    disk,             \* the output files written so far
    pc,               \* where run_simulation stands
    i,                \* the day counter of the long observation
    sky_run,          \* the sky handed to __setup_run_simulation_oskar
    observation_run,  \* the observation handed to it
    visiblity_files,  \* the accumulator of the long observation
    array_sky,        \* the rows, in the order the split works on
    N,                \* the number of splits
    split_array_sky,  \* the chunks
    futures,          \* the submitted tasks, in submission order
    results,          \* what client.gather returned
    visibility,       \* what __setup_run_simulation_oskar returned
    returned,         \* what run_simulation returned
    beam_calls,       \* the calls of fit_elements made so far: polarisation, day
    error             \* the exception run_simulation raised

inputVars == <<cluster, sky, observation>>
splitVars == <<array_sky, N, split_array_sky>>
vars == <<self, cluster, sky, observation, teldir, disk, pc, i, sky_run,
          observation_run, visiblity_files, array_sky, N, split_array_sky,
          futures, results, visibility, returned, beam_calls, error>>

\* ----------------------------------------------------------------- inputs
Skies == SeqsUpTo(Freqs, 1, MaxRows)

\* The index groups a caller may pass: none, or up to two groups of up to two
\* indices, equal in length or ragged, in range or not.
GroupLists == SeqsUpTo(SeqsUpTo(-1..1, 1, 2), 0, 2)

Simulation(client, groups, by, vram, beam) ==
    [vis_path |-> NoPath, client |-> client, split_idxs_per_group |-> groups,
     split_sky_for_dask_by |-> by, max_vram_usage_gpu |-> vram,
     enable_array_beam |-> beam]

Observation(long, days) ==
    [long |-> long, number_of_days |-> days,
     start_date_and_time |-> [date |-> 1, time |-> "noon"]]

TelescopeDir == {PositionTxt, LayoutTxt, Station000}

Start(sim, cl, s, obs, dir) ==
    /\ self = sim
    /\ cluster = cl
    /\ sky = s
    /\ observation = obs
    /\ teldir = dir
    /\ disk = {}
    /\ pc = "run_simulation"
    /\ i = 0
    /\ sky_run = <<>>
    /\ observation_run = NoObservation
    /\ visiblity_files = <<>>
    /\ array_sky = <<>>
    /\ N = 0
    /\ split_array_sky = <<>>
    /\ futures = <<>>
    /\ results = <<>>
    /\ visibility = NoResult
    /\ returned = NoResult
    /\ beam_calls = <<>>
    /\ error = NoError

\* ------------------------------------------------------------ run_simulation
\* A day loop that catches the error and goes on with the next day.
RaiseAndGoOn(e) == pc' = (IF observation.long THEN "for_day" ELSE "raised") /\ error' = e

\* An error that is wrapped with the day it occurred on.
RaiseWithDay(e) == pc' = "raised" /\ error' = [e EXCEPT !.day = i]

\* raise: the exception leaves run_simulation, which nothing catches.
Raise(e) == pc' = "raised" /\ error' = e

\* __setup_run_simulation_oskar returns v: to the day loop, or to the caller.
Return(v) ==
    /\ visibility' = v
    /\ IF observation.long
       THEN pc' = "write_to_file" /\ returned' = returned
       ELSE pc' = "done" /\ returned' = v

Visibility(path) == [kind |-> "Visibility", paths |-> <<path>>]

EnterLong ==
    /\ pc = "run_simulation"
    /\ observation.long
    /\ pc' = "for_day"
    /\ visiblity_files' = <<>>
    /\ UNCHANGED <<beam_calls, self, inputVars, teldir, disk, i, sky_run, observation_run,
                   splitVars, futures, results, visibility, returned, error>>

EnterSingle ==
    /\ pc = "run_simulation"
    /\ ~ observation.long
    /\ pc' = "setup"
    /\ sky_run' = sky
    /\ observation_run' = observation
    /\ UNCHANGED <<beam_calls, self, inputVars, teldir, disk, i, visiblity_files,
                   splitVars, futures, results, visibility, returned, error>>

\* ---------------------------------------------- __setup_run_simulation_oskar
\* The array sorted by frequency before anything else is done with it.
to_array_sorted(s) == OrderBy(s, [r \in 1..Len(s) |-> r])

\* sky.get_OSKAR_sky(...).to_array(): the rows in the caller's order.
to_array(s) == [k \in 1..Len(s) |-> k]

\* An unknown-split check that is made whether or not there is a client.
NoClientChecksSplit ==
    /\ pc = "setup"
    /\ ~ self.client
    /\ array_sky' = to_array(sky_run)
    /\ IF self.split_idxs_per_group = <<>> /\ self.split_sky_for_dask_by # "frequency"
       THEN Raise(Exception("ValueError", "Unknown split_sky_for_dask_by value."))
       ELSE pc' = "local" /\ UNCHANGED error
    /\ UNCHANGED <<beam_calls, self, inputVars, teldir, disk, i, sky_run, observation_run,
                   visiblity_files, N, split_array_sky, futures, results,
                   visibility, returned>>

NoClient ==
    /\ pc = "setup"
    /\ ~ self.client
    /\ array_sky' = to_array(sky_run)
    /\ pc' = "local"
    /\ UNCHANGED <<beam_calls, self, inputVars, teldir, disk, i, sky_run, observation_run,
                   visiblity_files, N, split_array_sky, futures, results,
                   visibility, returned, error>>

\* Index groups that are refused when the split is also asked for by name.
TakeGroupsRejectConflict ==
    /\ pc = "setup"
    /\ self.client
    /\ self.split_idxs_per_group # <<>>
    /\ array_sky' = to_array(sky_run)
    /\ IF self.split_sky_for_dask_by = "frequency"
       THEN /\ Raise(Exception("ValueError", "conflict"))
            /\ UNCHANGED split_array_sky
       ELSE IF TakeFails(array_sky', self.split_idxs_per_group)
       THEN /\ Raise(Exception(IF Ragged(self.split_idxs_per_group)
                               THEN "ValueError" ELSE "IndexError", ""))
            /\ UNCHANGED split_array_sky
       ELSE /\ split_array_sky' = NpTake(array_sky', self.split_idxs_per_group)
            /\ pc' = "submit"
            /\ UNCHANGED error
    /\ UNCHANGED <<beam_calls, self, inputVars, teldir, disk, i, sky_run, observation_run,
                   visiblity_files, N, futures, results, visibility, returned>>

TakeGroups ==
    /\ pc = "setup"
    /\ self.client
    /\ self.split_idxs_per_group # <<>>
    /\ array_sky' = to_array(sky_run)
    /\ IF TakeFails(array_sky', self.split_idxs_per_group)
       THEN /\ Raise(Exception(IF Ragged(self.split_idxs_per_group)
                               THEN "ValueError" ELSE "IndexError", ""))
            /\ UNCHANGED split_array_sky
       ELSE /\ split_array_sky' = NpTake(array_sky', self.split_idxs_per_group)
            /\ pc' = "submit"
            /\ UNCHANGED error
    /\ UNCHANGED <<beam_calls, self, inputVars, teldir, disk, i, sky_run, observation_run,
                   visiblity_files, N, futures, results, visibility, returned>>

SortByFrequency ==
    /\ pc = "setup"
    /\ self.client
    /\ self.split_idxs_per_group = <<>>
    /\ self.split_sky_for_dask_by = "frequency"
    /\ \E order \in argsort(sky_run) : array_sky' = order
    /\ N' = cluster.workers
    /\ pc' = "while"
    /\ UNCHANGED <<beam_calls, self, inputVars, teldir, disk, i, sky_run, observation_run,
                   visiblity_files, split_array_sky, futures, results,
                   visibility, returned, error>>

\* An unknown split name that falls back to the split by frequency.
UnknownSplitAsFrequency ==
    /\ pc = "setup"
    /\ self.client
    /\ self.split_idxs_per_group = <<>>
    /\ self.split_sky_for_dask_by # "frequency"
    /\ \E order \in argsort(sky_run) : array_sky' = order
    /\ N' = cluster.workers
    /\ pc' = "while"
    /\ UNCHANGED <<beam_calls, self, inputVars, teldir, disk, i, sky_run, observation_run,
                   visiblity_files, split_array_sky, futures, results,
                   visibility, returned, error>>

UnknownSplit ==
    /\ pc = "setup"
    /\ self.client
    /\ self.split_idxs_per_group = <<>>
    /\ self.split_sky_for_dask_by # "frequency"
    /\ array_sky' = to_array(sky_run)
    /\ Raise(Exception("ValueError", "Unknown split_sky_for_dask_by value."))
    /\ UNCHANGED <<beam_calls, self, inputVars, teldir, disk, i, sky_run, observation_run,
                   visiblity_files, N, split_array_sky, futures, results,
                   visibility, returned>>

\* A loop that finds the first chunk too large and splits again with the
\* same N.
WhileSplitSameN ==
    /\ pc = "while"
    /\ LET rank == DenseRank(sky_run, array_sky)
       IN  IF SplitFails(rank, N)
           THEN /\ Raise(Exception("IndexError", ""))
                /\ UNCHANGED <<N, split_array_sky>>
           ELSE LET chunks == NpSplit(array_sky, SplitIdxs(rank, N))
                    max_vram_usage_gpu == self.max_vram_usage_gpu * cluster.gpu_memory
                    ratio_vram_usage == RatioVramUsage(chunks, max_vram_usage_gpu)
                IN  /\ split_array_sky' = chunks
                    /\ N' = N
                    /\ IF cluster.cuda /\ self.max_vram_usage_gpu # 0 /\ ratio_vram_usage >= 1
                       THEN pc' = "while"
                       ELSE pc' = "submit"
                    /\ UNCHANGED error
    /\ UNCHANGED <<beam_calls, self, inputVars, teldir, disk, i, sky_run, observation_run,
                   visiblity_files, array_sky, futures, results, visibility,
                   returned>>

\* One pass of the while True loop.
WhileSplit ==
    /\ pc = "while"
    /\ LET rank == DenseRank(sky_run, array_sky)
       IN  IF SplitFails(rank, N)
           THEN /\ Raise(Exception("IndexError", ""))
                /\ UNCHANGED <<N, split_array_sky>>
           ELSE LET chunks == NpSplit(array_sky, SplitIdxs(rank, N))
                    max_vram_usage_gpu == self.max_vram_usage_gpu * cluster.gpu_memory
                    ratio_vram_usage == RatioVramUsage(chunks, max_vram_usage_gpu)
                IN  /\ split_array_sky' = chunks
                    /\ IF cluster.cuda /\ self.max_vram_usage_gpu # 0 /\ ratio_vram_usage > 1
                       THEN N' = N + ratio_vram_usage /\ pc' = "while"
                       ELSE N' = N /\ pc' = "submit"
                    /\ UNCHANGED error
    /\ UNCHANGED <<beam_calls, self, inputVars, teldir, disk, i, sky_run, observation_run,
                   visiblity_files, array_sky, futures, results, visibility,
                   returned>>

\* self.__get_OSKAR_settings_tree merged with the observation's: the entries
\* that differ from item to item or from day to day.
params_total(ms_file_path) ==
    [ms_filename |-> ms_file_path, oskar_vis_filename |-> self.vis_path,
     start_time_utc |-> observation_run.start_date_and_time]

\* One pass of the for sky_ in split_array_sky loop.
Submit ==
    /\ pc = "submit"
    /\ LET k == Len(futures) + 1
       IN  /\ futures' = Append(futures,
                  [sky_ |-> split_array_sky[k],
                   params |-> params_total(MsFilePath(i, k)),
                   status |-> "pending"])
           /\ pc' = IF k = Len(split_array_sky) THEN "gather" ELSE "submit"
    /\ UNCHANGED <<beam_calls, self, inputVars, teldir, disk, i, sky_run, observation_run,
                   visiblity_files, splitVars, results, visibility, returned,
                   error>>

\* What one run of OSKAR writes.
Outputs(params) ==
    {params.ms_filename} \cup
    (IF params.oskar_vis_filename = NoPath THEN {} ELSE {params.oskar_vis_filename})

\* __run_simulation_oskar on a worker: it ends, or it raises.
TaskFinish(k) ==
    /\ futures[k].status = "pending"
    /\ futures' = [futures EXCEPT ![k].status = "finished"]
    /\ disk' = disk \cup Outputs(futures[k].params)
    /\ UNCHANGED <<beam_calls, self, inputVars, teldir, pc, i, sky_run, observation_run,
                   visiblity_files, splitVars, results, visibility, returned,
                   error>>

TaskException(k) == Exception("RuntimeError", "oskar")

TaskFail(k) ==
    /\ futures[k].status = "pending"
    /\ futures' = [futures EXCEPT ![k].status = "error"]
    /\ UNCHANGED <<beam_calls, self, inputVars, teldir, disk, pc, i, sky_run,
                   observation_run, visiblity_files, splitVars, results,
                   visibility, returned, error>>

\* A gather that waits for the first task only, whose result is the one used.
GatherReturnFirst ==
    /\ pc = "gather"
    /\ futures[1].status = "finished"
    /\ results' = [k \in DOMAIN futures |-> futures[k].params.ms_filename]
    /\ Return(Visibility(results'[1]))
    /\ UNCHANGED <<beam_calls, self, inputVars, teldir, disk, i, sky_run, observation_run,
                   visiblity_files, splitVars, futures, error>>

\* client.gather(futures), every task finished: the results in the order of
\* futures; the call returns the first.
GatherReturn ==
    /\ pc = "gather"
    /\ \A k \in DOMAIN futures : futures[k].status = "finished"
    /\ results' = [k \in DOMAIN futures |-> futures[k].params.ms_filename]
    /\ Return(Visibility(results'[1]))
    /\ UNCHANGED <<beam_calls, self, inputVars, teldir, disk, i, sky_run, observation_run,
                   visiblity_files, splitVars, futures, error>>

\* client.gather(futures), a task in error: its exception is raised again.
GatherRaise ==
    /\ pc = "gather"
    /\ \E k \in DOMAIN futures :
          /\ futures[k].status = "error"
          /\ Raise(TaskException(k))
    /\ UNCHANGED <<beam_calls, self, inputVars, teldir, disk, i, sky_run, observation_run,
                   visiblity_files, splitVars, futures, results, visibility,
                   returned>>

\* No client: the one simulation of the whole array, in this process.
RunLocal ==
    /\ pc = "local"
    /\ \E ok \in BOOLEAN :
          IF ok
          THEN /\ disk' = disk \cup Outputs(params_total(MsFilePath(i, 0)))
               /\ Return(Visibility(MsFilePath(i, 0)))
               /\ UNCHANGED error
          ELSE /\ Raise(Exception("RuntimeError", "oskar"))
               /\ UNCHANGED <<disk, visibility, returned>>
    /\ UNCHANGED <<beam_calls, self, inputVars, teldir, i, sky_run, observation_run,
                   visiblity_files, splitVars, futures, results>>

\* ------------------------------------------------------ __run_simulation_long
\* for i, current_date in enumerate(pd.date_range(start, periods=days), 1)
NextDay ==
    /\ pc = "for_day"
    /\ i < observation.number_of_days
    /\ i' = i + 1
    /\ pc' = "read_tm"
    /\ UNCHANGED <<beam_calls, self, inputVars, teldir, disk, sky_run, observation_run,
                   visiblity_files, splitVars, futures, results, visibility,
                   returned, error>>

ReturnFiles ==
    /\ pc = "for_day"
    /\ i = observation.number_of_days
    /\ returned' = [kind |-> "list", paths |-> visiblity_files]
    /\ pc' = "done"
    /\ UNCHANGED <<beam_calls, self, inputVars, teldir, disk, i, sky_run, observation_run,
                   visiblity_files, splitVars, futures, results, visibility,
                   error>>

\* sky_run = SkyModel(sources=deepcopy(sky.sources))
\* telescope_run = Telescope.read_OSKAR_tm_file(telescope.path)
ReadTelescope ==
    /\ pc = "read_tm"
    /\ sky_run' = sky
    /\ IF MissingPosition(teldir)
       THEN Raise(Exception("KaraboException", "Missing crucial position.txt file"))
       ELSE IF MissingLayout(teldir)
       THEN Raise(Exception("KaraboException", "Only Layout.txt is support."))
       ELSE pc' = "purge" /\ UNCHANGED error
    /\ UNCHANGED <<beam_calls, self, inputVars, teldir, disk, i, observation_run,
                   visiblity_files, splitVars, futures, results, visibility,
                   returned>>

\* Remove old beam files if they exist
Purge ==
    /\ pc = "purge"
    /\ teldir' = RemoveBeamFiles(teldir)
    /\ pc' = IF self.enable_array_beam THEN "beam_x" ELSE "vis_path"
    /\ UNCHANGED <<beam_calls, self, inputVars, disk, i, sky_run, observation_run,
                   visiblity_files, splitVars, futures, results, visibility,
                   returned, error>>

\* One call of fit_elements, as the log of calls has it.
BeamCall(pol, day) == [pol |-> pol, day |-> day]

\* sim_beam, save_cst_file and fit_elements for one polarisation: the fitted
\* beam lands in the telescope directory, or a collaborator raises, before
\* fit_elements is called or in it.
FitBeam(pol, then) ==
    \E ok \in BOOLEAN :
        IF ok
        THEN /\ teldir' = WriteEntry(teldir, BeamBin(pol, i))
             /\ beam_calls' = Append(beam_calls, BeamCall(pol, i))
             /\ pc' = then
             /\ UNCHANGED error
        ELSE /\ Raise(Exception("BeamError", pol))
             /\ beam_calls' \in {beam_calls, Append(beam_calls, BeamCall(pol, i))}
             /\ UNCHANGED teldir

BeamX ==
    /\ pc = "beam_x"
    /\ FitBeam("x", "beam_y")
    /\ UNCHANGED <<self, inputVars, disk, i, sky_run, observation_run,
                   visiblity_files, splitVars, futures, results, visibility,
                   returned>>

\* A second fit that takes the X beam again.
BeamYFitsX ==
    /\ pc = "beam_y"
    /\ FitBeam("x", "vis_path")
    /\ UNCHANGED <<self, inputVars, disk, i, sky_run, observation_run,
                   visiblity_files, splitVars, futures, results, visibility,
                   returned>>

BeamY ==
    /\ pc = "beam_y"
    /\ FitBeam("y", "vis_path")
    /\ UNCHANGED <<self, inputVars, disk, i, sky_run, observation_run,
                   visiblity_files, splitVars, futures, results, visibility,
                   returned>>

\* current_date = current_date.date(): day i of the range, its time dropped.
current_date(day) ==
    [date |-> observation.start_date_and_time.date + (day - 1), time |-> NoValue]

\* A day whose observation is the caller's own object, not a deepcopy of it.
SetVisPathInPlace ==
    /\ pc = "vis_path"
    /\ visiblity_files' = Append(visiblity_files, DayPath(i, ".vis"))
    /\ self' = [self EXCEPT !.vis_path = visiblity_files'[Len(visiblity_files')]]
    /\ observation' = [observation EXCEPT !.start_date_and_time = current_date(i)]
    /\ observation_run' = observation'
    /\ array_sky' = <<>>
    /\ N' = 0
    /\ split_array_sky' = <<>>
    /\ futures' = <<>>
    /\ results' = <<>>
    /\ pc' = "setup"
    /\ UNCHANGED <<beam_calls, cluster, sky, teldir, disk, i, sky_run, visibility, returned,
                   error>>

\* A day that keeps its .vis path to itself, the object left as it was.
SetVisPathLocal ==
    /\ pc = "vis_path"
    /\ visiblity_files' = Append(visiblity_files, DayPath(i, ".vis"))
    /\ observation_run' = [observation EXCEPT !.start_date_and_time = current_date(i)]
    /\ array_sky' = <<>>
    /\ N' = 0
    /\ split_array_sky' = <<>>
    /\ futures' = <<>>
    /\ results' = <<>>
    /\ pc' = "setup"
    /\ UNCHANGED <<beam_calls, self, inputVars, teldir, disk, i, sky_run, visibility,
                   returned, error>>

\* visiblity_files.append(...); self.vis_path = visiblity_files[-1];
\* observation_run = deepcopy(observation) with the day's date; then the call
\* of __setup_run_simulation_oskar, whose locals start empty.
SetVisPath ==
    /\ pc = "vis_path"
    /\ visiblity_files' = Append(visiblity_files, DayPath(i, ".vis"))
    /\ self' = [self EXCEPT !.vis_path = visiblity_files'[Len(visiblity_files')]]
    /\ observation_run' = [observation EXCEPT !.start_date_and_time = current_date(i)]
    /\ array_sky' = <<>>
    /\ N' = 0
    /\ split_array_sky' = <<>>
    /\ futures' = <<>>
    /\ results' = <<>>
    /\ pc' = "setup"
    /\ UNCHANGED <<beam_calls, inputVars, teldir, disk, i, sky_run, visibility, returned,
                   error>>

\* A day that goes on to the next without writing its measurement set.
WriteToFileSkipped ==
    /\ pc = "write_to_file"
    /\ pc' = "for_day"
    /\ UNCHANGED <<beam_calls, self, inputVars, teldir, disk, i, sky_run, observation_run,
                   visiblity_files, splitVars, futures, results, visibility,
                   returned, error>>

\* visibility.write_to_file(ms_files): the day's measurement set, or an error
\* of the file system.
WriteToFile ==
    /\ pc = "write_to_file"
    /\ \E ok \in BOOLEAN :
          IF ok
          THEN /\ disk' = disk \cup {DayPath(i, ".ms")}
               /\ pc' = "for_day"
               /\ UNCHANGED error
          ELSE /\ Raise(Exception("OSError", ""))
               /\ UNCHANGED disk
    /\ UNCHANGED <<beam_calls, self, inputVars, teldir, i, sky_run, observation_run,
                   visiblity_files, splitVars, futures, results, visibility,
                   returned>>

\* --------------------------------------------------------- specifications
Next ==
    \/ EnterLong
    \/ EnterSingle
    \/ NoClient
    \/ TakeGroups
    \/ SortByFrequency
    \/ UnknownSplit
    \/ WhileSplit
    \/ Submit
    \/ \E k \in DOMAIN futures : TaskFinish(k)
    \/ \E k \in DOMAIN futures : TaskFail(k)
    \/ GatherReturn
    \/ GatherRaise
    \/ RunLocal
    \/ NextDay
    \/ ReturnFiles
    \/ ReadTelescope
    \/ Purge
    \/ BeamX
    \/ BeamY
    \/ SetVisPath
    \/ WriteToFile

\* A call of run_simulation, single or long, on a sky of two rows.
RunSkies == {<<200, 100>>, <<100, 100>>}
RunGroups == {<<>>, <<<<1>>, <<0>>>>}
RunDirs == {TelescopeDir, TelescopeDir \cup {StaleBin}, TelescopeDir \ {PositionTxt},
            TelescopeDir \ {LayoutTxt}}

Init ==
    \E s \in RunSkies, client \in BOOLEAN, w \in 1..MaxWorkers, g \in RunGroups,
       by \in {"frequency", "group"}, beam \in BOOLEAN, long \in BOOLEAN,
       days \in 0..MaxDays, dir \in RunDirs :
        /\ ~ long => days = 1 /\ dir = TelescopeDir /\ ~ beam
        /\ Start(Simulation(client, g, by, 1, beam),
                 [workers |-> w, cuda |-> FALSE, gpu_memory |-> 1],
                 s, Observation(long, days), dir)

Spec == Init /\ [][Next]_vars

\* The split alone, over every sky, worker count and memory budget, and over
\* the index groups: a single run with a client, up to the submission.
NextSplit ==
    \/ EnterSingle
    \/ TakeGroups
    \/ SortByFrequency
    \/ UnknownSplit
    \/ WhileSplit
    \/ Submit

InitSplit ==
    \/ \E s \in Skies, w \in 1..MaxWorkers, cuda \in BOOLEAN, vram \in 0..MaxVram :
          Start(Simulation(TRUE, <<>>, "frequency", vram, FALSE),
                [workers |-> w, cuda |-> cuda, gpu_memory |-> 1],
                s, Observation(FALSE, 1), TelescopeDir)
    \/ \E s \in {x \in Skies : Len(x) <= 2}, g \in GroupLists,
          by \in {"frequency", "group"} :
          Start(Simulation(TRUE, g, by, 1, FALSE),
                [workers |-> MaxWorkers, cuda |-> TRUE, gpu_memory |-> 1],
                s, Observation(FALSE, 1), TelescopeDir)

SpecSplit == InitSplit /\ [][NextSplit]_vars

\* The while loop alone, over every sky, worker count and memory budget: a
\* single run with a client up to the end of the loop.  The interpreter goes
\* on with the loop as long as it has a pass to make.
NextLoop ==
    \/ EnterSingle
    \/ SortByFrequency
    \/ WhileSplit

\* The loop works on the array as sorted: the skies already in ascending
\* order stand for all of them.
LoopSkies == {s \in Skies : \A k \in 1..(Len(s) - 1) : s[k] <= s[k + 1]}

InitLoop ==
    \E s \in LoopSkies, w \in 1..MaxWorkers, cuda \in BOOLEAN, vram \in 0..MaxVram :
        Start(Simulation(TRUE, <<>>, "frequency", vram, FALSE),
              [workers |-> w, cuda |-> cuda, gpu_memory |-> 1],
              s, Observation(FALSE, 1), TelescopeDir)

SpecLoop == InitLoop /\ [][NextLoop]_vars /\ WF_vars(WhileSplit)

\* The long observation alone, without a client, over the telescope
\* directories: with or without the two files the load insists on, beam files
\* of an earlier run, files inside the station directory.
NextTelescope ==
    \/ EnterLong
    \/ NextDay
    \/ ReturnFiles
    \/ ReadTelescope
    \/ Purge
    \/ BeamX
    \/ BeamY
    \/ SetVisPath
    \/ NoClient
    \/ RunLocal
    \/ WriteToFile

TelescopeDirs ==
    {{Station000} \cup required \cup others :
        required \in SUBSET {PositionTxt, LayoutTxt},
        others \in SUBSET {StaleBin, StationLayout, StationBin, BinTxt}}

InitTelescope ==
    \E dir \in TelescopeDirs, beam \in BOOLEAN, days \in 1..MaxDays :
        Start(Simulation(FALSE, <<>>, "frequency", 1, beam),
              [workers |-> 1, cuda |-> FALSE, gpu_memory |-> 1],
              <<100>>, Observation(TRUE, days), dir)

SpecTelescope == InitTelescope /\ [][NextTelescope]_vars

\* The scenario of one hundred rows, ten for each of ten frequencies, on four
\* workers and with no memory budget in force: a single run with a client.
ScenarioSkies ==
    {[r \in 1..100 |-> 100 * (((r - 1) % 10) + 1)],
     [r \in 1..100 |-> 100 * (10 - ((r - 1) \div 10))]}

NextScenario ==
    \/ EnterSingle
    \/ SortByFrequency
    \/ WhileSplit
    \/ Submit
    \/ \E k \in DOMAIN futures : TaskFinish(k)
    \/ \E k \in DOMAIN futures : TaskFail(k)
    \/ GatherReturn
    \/ GatherRaise

InitScenario ==
    \E s \in ScenarioSkies, cuda \in BOOLEAN, vram \in 0..1 :
        /\ ~ (cuda /\ vram # 0)
        /\ Start(Simulation(TRUE, <<>>, "frequency", vram, FALSE),
                 [workers |-> 4, cuda |-> cuda, gpu_memory |-> 1],
                 s, Observation(FALSE, 1), TelescopeDir)

SpecScenario == InitScenario /\ [][NextScenario]_vars

\* ------------------------------------------------------------- properties
FrequencySplit ==
    /\ self.client
    /\ self.split_idxs_per_group = <<>>
    /\ self.split_sky_for_dask_by = "frequency"

\* The chunks handed to the executor, in submission order.
Handed == [k \in DOMAIN futures |-> futures[k].sky_]

Occurrences(rows, r) == Cardinality({p \in DOMAIN rows : rows[p] = r})

\* C1: once a frequency split has completed and its chunks are submitted,
\* every row of the caller's sky lies in exactly one submitted chunk, exactly
\* once: the chunks are pairwise disjoint and together hold the input rows,
\* none lost and none duplicated.
C1_ChunksPartitionRows ==
    (FrequencySplit /\ pc = "gather") =>
        /\ Len(Flatten(Handed)) = Len(sky)
        /\ \A r \in 1..Len(sky) : Occurrences(Flatten(Handed), r) = 1

C1_Witness ==
    /\ FrequencySplit
    /\ pc = "gather"
    /\ Len(sky) = 3
    /\ Cardinality({k \in DOMAIN futures : futures[k].sky_ # <<>>}) >= 2

\* What the task of each submitted item returns: its params' ms_filename.
TaskResults == [k \in DOMAIN futures |-> futures[k].params.ms_filename]

\* C2: a single run with a client whose tasks all succeeded returns one
\* result per submitted item, in submission order.
C2_ReturnsEveryResult ==
    (self.client /\ ~ observation.long /\ pc = "done") =>
        returned.paths = TaskResults

Failed == {k \in DOMAIN futures : futures[k].status = "error"}

\* C3: as soon as one submitted task has failed, the call returns no result,
\* whatever its siblings do: it is still submitting or gathering, or it has
\* raised, and then the error is a failed task's own exception.
C3_FailureIsAtomic ==
    (Failed # {}) =>
        /\ pc \in {"submit", "gather", "raised"}
        /\ returned = NoResult
        /\ results = <<>>
        /\ pc = "raised" => \E k \in Failed : error = TaskException(k)

C3_Witness ==
    /\ pc = "raised"
    /\ Failed # {}
    /\ \E k \in DOMAIN futures : futures[k].status = "finished"
    /\ \E k \in DOMAIN futures : futures[k].status = "pending"
    /\ returned = NoResult

\* C4: a long observation whose days all succeed returns as many paths as it
\* has days, the d-th being beam_vis_<d>.vis in the output directory.
C4_OnePathPerDay ==
    (observation.long /\ pc = "done") =>
        /\ Len(returned.paths) = observation.number_of_days
        /\ \A d \in 1..observation.number_of_days :
              returned.paths[d] = <<vis_dir_path, "beam_vis_", d, ".vis">>

C4_Witness ==
    /\ observation.long
    /\ pc = "done"
    /\ observation.number_of_days = MaxDays
    /\ Len(returned.paths) = MaxDays

BeamFiles == {e \in teldir : e.ext = ".bin"}

\* C5: when the beam fitting of a day is about to begin, the telescope
\* directory holds no beam file written on an earlier day (or before the
\* campaign).
C5_NoStaleBeamFiles ==
    (pc \in {"beam_x", "beam_y"}) => \A e \in BeamFiles : e.day = i

C5_Witness ==
    /\ pc = "beam_x"
    /\ i = 2
    /\ BeamFiles = {}
    /\ self.enable_array_beam

DaySteps == {"read_tm", "purge", "beam_x", "beam_y", "vis_path", "setup",
             "while", "local", "submit", "gather", "write_to_file"}

Pending == {k \in DOMAIN futures : futures[k].status = "pending"}

\* C6: while a step of day i is at hand, the measurement set of every earlier
\* day is written, and outside the day's own dispatch no task of any day is
\* still running.
C6_DaysInSequence ==
    (observation.long /\ pc \in DaySteps) =>
        /\ \A d \in 1..(i - 1) : <<vis_dir_path, "beam_vis_", d, ".ms">> \in disk
        /\ pc \notin {"submit", "gather"} => Pending = {}

C6_Witness ==
    /\ observation.long
    /\ i = 2
    /\ pc = "gather"
    /\ Pending # {}
    /\ self.enable_array_beam

\* C7: a failure in a long observation ends it: the call has raised and
\* returns nothing, the day counter stands still, the measurement sets of the
\* earlier days are on disk, and no file is removed from the output or the
\* telescope directory, at the failure or after it.
C7_AbortKeepsFiles ==
    [][(observation.long /\ error' # NoError) =>
        /\ pc' = "raised"
        /\ returned' = NoResult
        /\ i' = i
        /\ disk \subseteq disk'
        /\ teldir' = teldir
        /\ \A d \in 1..(i' - 1) : <<vis_dir_path, "beam_vis_", d, ".ms">> \in disk']_vars

C7_Witness ==
    /\ observation.long
    /\ pc = "raised"
    /\ i = 2
    /\ <<vis_dir_path, "beam_vis_", 1, ".ms">> \in disk
    /\ BeamFiles # {}

StepErrors ==
    {[type |-> "KaraboException", msg |-> "Missing crucial position.txt file"],
     [type |-> "KaraboException", msg |-> "Only Layout.txt is support."],
     [type |-> "BeamError", msg |-> "x"], [type |-> "BeamError", msg |-> "y"],
     [type |-> "ValueError", msg |-> ""], [type |-> "IndexError", msg |-> ""],
     [type |-> "ValueError", msg |-> "Unknown split_sky_for_dask_by value."],
     [type |-> "RuntimeError", msg |-> "oskar"], [type |-> "OSError", msg |-> ""]}

RowRanks ==
    [r \in 1..Len(sky) |->
        Cardinality({sky[q] : q \in {x \in 1..Len(sky) : sky[x] <= sky[r]}})]

\* Chunk c has the given number of rows, all of rank in [lo, hi).
ChunkIs(rk, c, size, lo, hi) ==
    /\ Len(split_array_sky[c]) = size
    /\ \A p \in DOMAIN split_array_sky[c] :
          lo <= rk[split_array_sky[c][p]] /\ rk[split_array_sky[c][p]] < hi

InRankOrder(rk, rows) ==
    \A p \in 1..(Len(rows) - 1) : rk[rows[p]] <= rk[rows[p + 1]]

\* C9, as the specification has it: the scenario's split yields four chunks
\* of 25 rows, of ranks [1,3), [3,5), [5,8) and [8,11).
C9_FourChunksOf25 ==
    (split_array_sky # <<>>) =>
        LET rk == RowRanks
        IN  /\ Len(split_array_sky) = 4
            /\ ChunkIs(rk, 1, 25, 1, 3)
            /\ ChunkIs(rk, 2, 25, 3, 5)
            /\ ChunkIs(rk, 3, 25, 5, 8)
            /\ ChunkIs(rk, 4, 25, 8, 11)

\* C9, amended: the scenario's split yields four chunks of 20, 30, 30 and 20
\* rows, in rank order, of ranks [1,3), [3,6), [6,9) and [9,11).
C9_FourChunksBySpacing ==
    (split_array_sky # <<>>) =>
        LET rk == RowRanks
        IN  /\ Len(split_array_sky) = 4
            /\ ChunkIs(rk, 1, 20, 1, 3)
            /\ ChunkIs(rk, 2, 30, 3, 6)
            /\ ChunkIs(rk, 3, 30, 6, 9)
            /\ ChunkIs(rk, 4, 20, 9, 11)
            /\ InRankOrder(rk, Flatten(split_array_sky))

C9_Witness ==
    /\ Len(sky) = 100
    /\ cluster.workers = 4
    /\ Len(split_array_sky) = 4
    /\ pc = "done"

\* The row a 0-based index of a group selects, in the caller's order.
RowAt(idx) == IF idx >= 0 THEN idx + 1 ELSE Len(sky) + idx + 1

\* C10: with a client and index groups, the submitted chunks are the groups'
\* rows of the caller's array, group by group and index by index: nothing is
\* sorted and no split count is computed or raised.
C10_GroupsTakenVerbatim ==
    (self.client /\ self.split_idxs_per_group # <<>> /\ pc = "gather") =>
        /\ Len(futures) = Len(self.split_idxs_per_group)
        /\ \A a \in DOMAIN futures :
              /\ Len(Handed[a]) = Len(self.split_idxs_per_group[a])
              /\ \A b \in DOMAIN Handed[a] :
                    Handed[a][b] = RowAt(self.split_idxs_per_group[a][b])
        /\ N = 0

C10_Witness ==
    /\ self.client
    /\ pc = "gather"
    /\ self.split_idxs_per_group = <<<<1, 0>>, <<-1, 1>>>>
    /\ sky = <<200, 100>>
    /\ cluster.cuda
    /\ Len(Handed[1]) > self.max_vram_usage_gpu * cluster.gpu_memory

\* The memory check of the while loop is made: a GPU and a non-zero budget.
BudgetInForce == cluster.cuda /\ self.max_vram_usage_gpu # 0

Split == pc \in {"submit", "gather"}

C13_OversizeEscalates ==
    (FrequencySplit /\ BudgetInForce /\ Split) =>
        Len(split_array_sky[1]) <= self.max_vram_usage_gpu * cluster.gpu_memory

\* The number of chunks the loop emits for this sky, sort order and worker
\* count under the budget factor b.
Emitted(b) ==
    WhileTrue(array_sky, DenseRank(sky, array_sky), cluster.workers,
              cluster.cuda /\ b # 0, b * cluster.gpu_memory)

\* C14: the chunks the split has emitted are as many as the loop yields for
\* the budget of the run, and for the same sky and workers no larger budget
\* yields more of them (a split that raises emits none).
C14_MonotonicInBudget ==
    (FrequencySplit /\ BudgetInForce /\ pc \in {"submit", "gather", "raised"}) =>
        /\ (IF pc = "raised" THEN 0 ELSE Len(split_array_sky)) = Emitted(self.max_vram_usage_gpu)
        /\ \A b \in self.max_vram_usage_gpu..(MaxVram + 1) :
              Emitted(b) <= Emitted(self.max_vram_usage_gpu)

C14_Witness ==
    /\ FrequencySplit
    /\ BudgetInForce
    /\ pc = "gather"
    /\ self.max_vram_usage_gpu = 1
    /\ Len(sky) = 2
    /\ Len(split_array_sky[1]) = 2
    /\ Emitted(1) = 1
    /\ Emitted(2) = 1

\* C15: every chunk submitted to the executor holds at least one row.
C15_NoEmptyChunkSubmitted ==
    \A k \in DOMAIN futures : futures[k].sky_ # <<>>

\* The measurement sets of the simulations run so far.
MsFiles == {f \in disk : f[2] = "visibility_"}

\* C12: without a client nothing is split or submitted and no split name or
\* index group is looked at; the one simulation runs on the whole array in
\* the caller's order, and a single run returns its one result.
C12_NoClientRunsOnce ==
    (~ self.client) =>
        /\ futures = <<>>
        /\ split_array_sky = <<>>
        /\ N = 0
        /\ error.type \notin {"ValueError", "IndexError"}
        /\ pc = "local" => array_sky = [k \in 1..Len(sky) |-> k]
        /\ MsFiles \subseteq {MsFilePath(d, 0) : d \in 0..i}
        /\ (pc = "done" /\ ~ observation.long) =>
              /\ returned = Visibility(MsFilePath(0, 0))
              /\ MsFiles = {MsFilePath(0, 0)}

C12_Witness ==
    /\ ~ self.client
    /\ ~ observation.long
    /\ pc = "done"
    /\ self.split_sky_for_dask_by = "group"
    /\ self.split_idxs_per_group = <<>>
    /\ returned.kind = "Visibility"

\* C16: no step changes the caller's sky or observation, and every call of
\* a day is handed the caller's sky and the caller's observation with only
\* the start replaced by the date of the day.
C16_BaseUnchanged ==
    [][/\ sky' = sky
       /\ observation' = observation
       /\ (observation.long /\ pc' = "setup") =>
             /\ sky_run' = sky
             /\ observation_run' =
                   [observation EXCEPT !.start_date_and_time =
                       [date |-> observation.start_date_and_time.date + (i' - 1),
                        time |-> NoValue]]]_vars

C16_Witness ==
    /\ observation.long
    /\ pc = "done"
    /\ i = 2
    /\ observation.start_date_and_time = [date |-> 1, time |-> "noon"]
    /\ observation_run.start_date_and_time = [date |-> 2, time |-> NoValue]
    /\ sky \in RunSkies

UnknownSplitName ==
    /\ self.client
    /\ self.split_idxs_per_group = <<>>
    /\ self.split_sky_for_dask_by # "frequency"

\* C17: with a client, no index groups and a split name other than
\* "frequency", nothing is ever submitted or simulated; a single run goes
\* from its start straight to the ValueError.
C17_UnknownSplitFailsFirst ==
    UnknownSplitName =>
        /\ futures = <<>>
        /\ disk = {}
        /\ pc \notin {"while", "submit", "gather", "local", "write_to_file"}
        /\ ~ observation.long =>
              /\ pc \in {"run_simulation", "setup", "raised"}
              /\ pc = "raised" =>
                    error = Exception("ValueError", "Unknown split_sky_for_dask_by value.")

C17_Witness ==
    /\ UnknownSplitName
    /\ ~ observation.long
    /\ pc = "raised"
    /\ error.type = "ValueError"
    /\ cluster.workers > 1

GroupsAndFrequency ==
    /\ self.client
    /\ self.split_idxs_per_group # <<>>
    /\ self.split_sky_for_dask_by = "frequency"

\* C18, as the specification has it: index groups given together with the
\* split by frequency are rejected.
C18_ConflictRejected ==
    (GroupsAndFrequency /\ pc \notin {"run_simulation", "setup"}) => pc = "raised"

\* C18, amended: index groups that np.take accepts win over the split name:
\* with "frequency" as the name the call goes on to submit the groups, with
\* no error, as it does under any other name.
C18_GroupsWin ==
    (GroupsAndFrequency /\ pc \notin {"run_simulation", "setup"}
        /\ ~ TakeFails([k \in 1..Len(sky) |-> k], self.split_idxs_per_group)) =>
        /\ Split
        /\ error = NoError
        /\ Len(split_array_sky) = Len(self.split_idxs_per_group)

C18_Witness ==
    /\ GroupsAndFrequency
    /\ pc = "gather"
    /\ Len(futures) = 2
    /\ error = NoError

\* C19: the items of one dispatch have pairwise different measurement-set
\* paths and, when vis_path is set, pairwise different oskar_vis_filename.
C19_DistinctOutputPaths ==
    \A a, b \in DOMAIN futures :
        a # b =>
            /\ futures[a].params.ms_filename # futures[b].params.ms_filename
            /\ futures[a].params.oskar_vis_filename # NoPath =>
                  futures[a].params.oskar_vis_filename # futures[b].params.oskar_vis_filename

\* The rows of a chunk.
Rows(chunk) == {chunk[p] : p \in DOMAIN chunk}

\* Every boundary rank i * spacing, 1 <= i <= N - 1, is a rank of the sky.
BoundariesInRange(n) ==
    LET R == Cardinality(Range(sky))
    IN  \A b \in 1..(n - 1) : b * CeilDiv(R, n) <= R

\* C20: a frequency split whose boundary ranks all lie within 1..R does not
\* raise, and leaves N chunks: chunk c (from 1) holds, once each, the rows of
\* dense rank in [(c-1) * spacing, c * spacing), the last one those of rank
\* (N-1) * spacing and above.
C20_ChunksAreRankIntervals ==
    (FrequencySplit /\ pc \notin {"run_simulation", "setup", "while"}
        /\ BoundariesInRange(cluster.workers)) =>
        LET rk == RowRanks
            n == cluster.workers
            spacing == CeilDiv(Cardinality(Range(sky)), n)
        IN  /\ Split
            /\ Len(split_array_sky) = n
            /\ \A c \in 1..n :
                  /\ Rows(split_array_sky[c]) =
                        {r \in 1..Len(sky) : /\ (c - 1) * spacing <= rk[r]
                                             /\ (c = n \/ rk[r] < c * spacing)}
                  /\ Len(split_array_sky[c]) = Cardinality(Rows(split_array_sky[c]))

C20_Witness ==
    /\ FrequencySplit
    /\ pc = "gather"
    /\ cluster.workers = 2
    /\ Cardinality(Range(sky)) = 3
    /\ Len(split_array_sky[1]) = 1
    /\ Len(split_array_sky[2]) = 2

\* C21: a frequency split never raises, whatever the sky and the number of
\* workers: a boundary rank above the highest rank gives empty chunks.
C21_SplitNeverRaises ==
    FrequencySplit => pc # "raised"

\* The calls of fit_elements made on day d, in the order they were made.
CallsOfDay(d) == SelectSeq(beam_calls, LAMBDA c : c.day = d)

BothFits(d) == <<BeamCall("x", d), BeamCall("y", d)>>

\* The steps of a day that come after its beam fitting.
AfterBeam == {"vis_path", "setup", "while", "local", "submit", "gather",
              "write_to_file", "for_day", "done"}

\* The simulation of day d has begun: an item of it is submitted, or a
\* measurement set of it is on disk.
SimulationStarted(d) ==
    \/ \E k \in DOMAIN futures : futures[k].params.ms_filename[3] \div 100 = d
    \/ \E f \in MsFiles : f[3] \div 100 = d

\* C22: on a long observation fit_elements is never called with the array
\* beam disabled; with it enabled, every day that has passed its beam fitting
\* has had exactly the calls X then Y, none before the purge of the day, and
\* the simulation of the day begins only after both.
C22_TwoFitsPerDay ==
    observation.long =>
        /\ ~ self.enable_array_beam => beam_calls = <<>>
        /\ Len(beam_calls) <= 2 * i
        /\ self.enable_array_beam =>
              /\ \A d \in 1..(i - 1) : CallsOfDay(d) = BothFits(d)
              /\ (i >= 1 /\ pc \in AfterBeam) => CallsOfDay(i) = BothFits(i)
              /\ (i >= 1 /\ pc \in {"read_tm", "purge", "beam_x"}) => CallsOfDay(i) = <<>>
              /\ pc = "beam_y" => CallsOfDay(i) = <<BeamCall("x", i)>>
              /\ (i >= 1 /\ CallsOfDay(i) # BothFits(i)) => ~ SimulationStarted(i)
        /\ (i >= 1 /\ pc \in {"read_tm", "purge", "beam_x", "beam_y", "vis_path"}) =>
              ~ SimulationStarted(i)

C22_Witness ==
    /\ observation.long
    /\ self.enable_array_beam
    /\ self.client
    /\ i = 2
    /\ pc = "gather"
    /\ beam_calls = BothFits(1) \o BothFits(2)
    /\ SimulationStarted(2)

\* C23: the call enters the gather with every chunk submitted once, in
\* order; while a task is pending and none has failed it stays there, with
\* nothing returned, no item resubmitted, dropped or changed but by its own
\* task; and it leaves the gather for a result only with every task finished.
C23_BlocksUntilAllDone ==
    [][/\ (pc = "submit" /\ pc' = "gather") =>
             [k \in DOMAIN futures' |-> futures'[k].sky_] = split_array_sky
       /\ (pc = "gather" /\ Pending # {} /\ Failed = {}) =>
             /\ pc' = "gather"
             /\ returned' = returned
             /\ results' = <<>>
             /\ Len(futures') = Len(futures)
             /\ \A k \in DOMAIN futures :
                   /\ futures'[k].sky_ = futures[k].sky_
                   /\ futures'[k].params = futures[k].params
                   /\ futures[k].status = "finished" => futures'[k].status = "finished"
       /\ (pc = "gather" /\ pc' \notin {"gather", "raised"}) =>
             \A k \in DOMAIN futures : futures[k].status = "finished"]_vars

C23_Witness ==
    /\ self.client
    /\ ~ observation.long
    /\ pc = "gather"
    /\ Len(futures) = 3
    /\ futures[1].status = "finished"
    /\ futures[2].status = "pending"
    /\ futures[3].status = "finished"
    /\ Failed = {}

\* C24: the while loop of the frequency split always comes to its end, with
\* an accepted split or with an error, whatever the sky, the workers and the
\* budget.
C24_LoopTerminates ==
    (pc = "while") ~> (pc \in {"submit", "raised"})

C24_Witness ==
    /\ FrequencySplit
    /\ BudgetInForce
    /\ pc = "submit"
    /\ cluster.workers = 1
    /\ Len(sky) = 3
    /\ Len(split_array_sky[1]) > self.max_vram_usage_gpu * cluster.gpu_memory

\* The top level of the telescope directory lacks one of the two files.
LacksRequired ==
    \E name \in {"position", "layout"} :
        \A x \in teldir :
            ~ (x.parent = "" /\ x.kind = "file" /\ x.stem = name /\ x.ext = ".txt")

\* C25: with position.txt or layout.txt missing from the top level, the load
\* of the first day raises: no step leads to the purge, the beam fitting or
\* a simulation, the directory stays as it is, nothing is fitted or written.
C25_LoadFailsBeforePurge ==
    [][(observation.long /\ LacksRequired) =>
        /\ pc' \in {"for_day", "read_tm", "raised"}
        /\ pc = "read_tm" => (pc' = "raised" /\ error'.type = "KaraboException")
        /\ teldir' = teldir
        /\ beam_calls' = <<>>
        /\ disk' = {}
        /\ returned' = NoResult]_vars

C25_Witness ==
    /\ observation.long
    /\ pc = "raised"
    /\ i = 1
    /\ PositionTxt \in teldir
    /\ LayoutTxt \notin teldir
    /\ StationLayout \in teldir
    /\ StaleBin \in teldir
    /\ error.type = "KaraboException"

\* The path of the last day that got as far as its simulation.
LastDayPath ==
    IF visiblity_files = <<>> THEN NoPath
    ELSE <<vis_dir_path, "beam_vis_", Len(visiblity_files), ".vis">>

ConfigFields == {"client", "split_idxs_per_group", "split_sky_for_dask_by",
                 "max_vram_usage_gpu", "enable_array_beam"}

\* C26: no step changes a field of the simulation object other than
\* vis_path; on a long observation vis_path is the .vis path of the last day
\* whose simulation was reached (day i, from the day's call on), and a
\* settings tree made from the object names that path for the visibility
\* file.
C26_OnlyVisPathChanges ==
    [][/\ \A f \in ConfigFields : self'[f] = self[f]
       /\ observation.long =>
             /\ self'.vis_path = LastDayPath'
             /\ pc' \in {"setup", "while", "local", "submit", "gather", "write_to_file"} =>
                   Len(visiblity_files') = i'
             /\ (pc' = "done" /\ i' >= 1) =>
                   /\ self'.vis_path = <<vis_dir_path, "beam_vis_", i', ".vis">>
                   /\ self'.vis_path \in Outputs(params_total(MsFilePath(0, 0)))']_vars

C26_Witness ==
    /\ observation.long
    /\ pc = "done"
    /\ i = 2
    /\ self.vis_path = <<vis_dir_path, "beam_vis_", 2, ".vis">>
    /\ self.client
    /\ self.enable_array_beam

\* C27: the purge of a day removes the top-level entries whose names end
\* in ".bin" and no other; it is the step after every successful load, with
\* or without the array beam; and no step at all removes or changes any other
\* entry.
C27_PurgeTopLevelBin ==
    [][/\ pc = "purge" =>
             teldir' = {x \in teldir : ~ (x.parent = "" /\ x.ext = ".bin")}
       /\ (pc = "read_tm" /\ pc' # "raised") => pc' = "purge"
       /\ (pc' = "vis_path" /\ ~ self.enable_array_beam) =>
             (pc = "purge" /\ \A x \in teldir' : ~ (x.parent = "" /\ x.ext = ".bin"))
       /\ \A x \in teldir : (x.parent # "" \/ x.ext # ".bin") => x \in teldir']_vars

C27_Witness ==
    /\ observation.long
    /\ ~ self.enable_array_beam
    /\ i = 2
    /\ pc = "vis_path"
    /\ teldir = {PositionTxt, LayoutTxt, Station000, StationLayout, StationBin, BinTxt}

====
